---- MODULE Spec2Model ----
(***************************************************************************)
(* A model of bench/workgen/validate_mirror_tables.py: the scan of the     *)
(* metadata namespace, the resolution of mirror pairs from app_metadata,   *)
(* the comparison loop of main and its exit status.                        *)
(*                                                                         *)
(* Strings are sequences of lexical tokens: the separators "=", ",", ":",  *)
(* " " and the double quote are one token each, and so is every word the   *)
(* code never looks inside (workgen_dynamic_table, true, a table name).    *)
(* str.split, str.strip and re.findall are computed on these sequences.    *)
(***************************************************************************)
EXTENDS Integers, Sequences, FiniteSets, TLC

\* Number of table names the catalog may hold.
MaxTables == 4
\* Largest number of comma-separated elements of a generated app_metadata.
MaxElems == 2

NamePool == <<"t1", "t2", "t3", "t4", "t5", "t6">>
\* A table name, as a string (one token).
Name(i) == <<NamePool[i]>>
Names == {Name(i) : i \in 1..MaxTables}
\* The rank of a name in the key order of the metadata namespace.
Rank(n) == CHOOSE i \in 1..MaxTables : Name(i) = n

DYN == "workgen_dynamic_table"
MIR == "workgen_table_mirror"
AM_OPEN == "app_metadata=\""
QUOTE == "\""

(***************************************************************************)
(* Python string operations on token sequences.                            *)
(***************************************************************************)
RECURSIVE Split(_, _)
\* s.split(sep): the pieces between the occurrences of sep, at least one.
Split(s, sep) ==
  IF \E i \in 1..Len(s) : s[i] = sep
  THEN LET i == CHOOSE k \in 1..Len(s) :
                  s[k] = sep /\ \A j \in 1..(k - 1) : s[j] # sep
       IN <<SubSeq(s, 1, i - 1)>> \o Split(SubSeq(s, i + 1, Len(s)), sep)
  ELSE <<s>>

RECURSIVE LStrip(_)
LStrip(s) == IF s # <<>> /\ Head(s) = " " THEN LStrip(Tail(s)) ELSE s
RECURSIVE RStrip(_)
RStrip(s) ==
  IF s # <<>> /\ s[Len(s)] = " " THEN RStrip(SubSeq(s, 1, Len(s) - 1)) ELSE s
\* s.strip()
Strip(s) == RStrip(LStrip(s))

RECURSIVE Join(_, _)
\* sep.join(parts)
Join(parts, sep) ==
  IF parts = <<>> THEN <<>>
  ELSE IF Len(parts) = 1 THEN parts[1]
  ELSE parts[1] \o <<sep>> \o Join(Tail(parts), sep)

\* re.findall('app_metadata="([^"]*)"', metadata): the groups matched, of
\* which the code uses the first. A match is an opening app_metadata=" with a
\* closing quote after it and no quote in between.
FindAllAppMetadata(metadata) ==
  LET Starts == {i \in 1..Len(metadata) :
                   /\ metadata[i] = AM_OPEN
                   /\ \E j \in (i + 1)..Len(metadata) : metadata[j] = QUOTE}
      CloseOf(i) == CHOOSE j \in (i + 1)..Len(metadata) :
                      /\ metadata[j] = QUOTE
                      /\ \A k \in (i + 1)..(j - 1) : metadata[k] # QUOTE
  IN IF Starts = {} THEN <<>>
     ELSE LET i == CHOOSE s \in Starts : \A t \in Starts : s <= t
          IN <<SubSeq(metadata, i + 1, CloseOf(i) - 1)>>

(***************************************************************************)
(* Values of Python: None, a string, or a raised exception.                *)
(***************************************************************************)
None == [kind |-> "None", val |-> <<>>]
Str(s) == [kind |-> "str", val |-> s]
Raise(e) == [kind |-> "raise", val |-> <<e>>]

RECURSIVE MakeDict(_)
\* dict(pairs): a later pair with the same key replaces an earlier one.
MakeDict(pairs) ==
  IF pairs = <<>> THEN <<>>
  ELSE LET n == Len(pairs)
       IN (pairs[n][1] :> pairs[n][2]) @@ MakeDict(SubSeq(pairs, 1, n - 1))

\* metadata_cursor[filename] on the catalog cat: the record's value, KeyError
\* when the key is absent, another exception when the lookup fails.
CursorLookup(cat, key) ==
  IF key \notin DOMAIN cat \/ cat[key].kind = "absent" THEN Raise("KeyError")
  ELSE IF cat[key].kind = "error" THEN Raise("WiredTigerError")
  ELSE Str(cat[key].value)

\* The app_metadata dict of lines 117-119, or the ValueError of unpacking an
\* element that has no '=' or more than one into 'a, b'.
ParseAppMetadata(s) ==
  LET elements == Split(s, ",")
  IN IF \E i \in 1..Len(elements) : Len(Split(elements[i], "=")) # 2
     THEN Raise("ValueError")
     ELSE [kind |-> "dict",
           val |-> MakeDict([i \in 1..Len(elements) |->
                     <<Strip(Split(elements[i], "=")[1]),
                       Strip(Split(elements[i], "=")[2])>>])]

\* Mutants of HasMirror: the flag is not read; the flag may hold any value.
HasMirrorNoFlag(app_metadata) == <<MIR>> \in DOMAIN app_metadata
HasMirrorAnyFlag(app_metadata) ==
  <<DYN>> \in DOMAIN app_metadata /\ <<MIR>> \in DOMAIN app_metadata

\* app_metadata.get('workgen_dynamic_table') == 'true' and
\* app_metadata.get('workgen_table_mirror') != None
HasMirror(app_metadata) ==
  /\ <<DYN>> \in DOMAIN app_metadata
  /\ app_metadata[<<DYN>>] = <<"true">>
  /\ <<MIR>> \in DOMAIN app_metadata

\* mirror.split(':')[1], or the IndexError of a value without a ':'.
MirrorName(mirror) ==
  IF Len(Split(mirror, ":")) < 2 THEN Raise("IndexError")
  ELSE Str(Split(mirror, ":")[2])

\* get_mirror_file(metadata_cursor, filename): the bare name of the mirror,
\* None, or the exception that leaves the function.
get_mirror_file(cat, filename) ==
  LET looked == CursorLookup(cat, filename)
      result == FindAllAppMetadata(looked.val)
      parsed == ParseAppMetadata(result[1])
  IN IF looked.kind = "raise" /\ looked.val = <<"KeyError">> THEN None
     \* Any other exception is swallowed, and metadata is unbound at line 113.
     ELSE IF looked.kind = "raise" THEN Raise("UnboundLocalError")
     ELSE IF result = <<>> THEN None
     ELSE IF parsed.kind = "raise" THEN parsed
     ELSE IF HasMirror(parsed.val) THEN MirrorName(parsed.val[<<MIR>>])
     ELSE None

(***************************************************************************)
(* Catalog records.                                                        *)
(***************************************************************************)
\* The catalog key of a table: f'table:{filename}'.
TableKey(n) == <<"table", ":">> \o n
\* The value of a record whose configuration string holds app_metadata="app".
ValueWith(app) ==
  <<"access_pattern_hint=none", ",", AM_OPEN>> \o app
    \o <<QUOTE, ",", "block_compressor=">>
\* A value cut off before the closing quote.
ValueUnclosed(app) == <<"access_pattern_hint=none", ",", AM_OPEN>> \o app
\* A value without an app_metadata entry.
ValuePlain == <<"access_pattern_hint=none", ",", "block_compressor=">>

Absent == [kind |-> "absent", value |-> <<>>]
LookupError == [kind |-> "error", value |-> <<>>]
Found(v) == [kind |-> "found", value |-> v]

\* app_metadata strings as Workgen writes them, and damaged ones.
MirrorOf(n) == <<DYN, "=", "true", ",", MIR, "=", "table", ":">> \o n
NoFlagMirrorOf(n) == <<MIR, "=", "table", ":">> \o n
NoEquals == <<DYN>>

\* The records the table of a listed file may hold in a run of main: no
\* app_metadata, app_metadata without an '=', a mirror without the flag, and
\* the flag with any table as the mirror. (A listed file without a record
\* makes get_mirror_file return None as a record without app_metadata does;
\* ResolveRecords below has that case and the other damaged ones.)
MainRecords ==
  {Found(ValuePlain), Found(ValueWith(NoEquals)),
   Found(ValueWith(NoFlagMirrorOf(Name(MaxTables))))}
    \cup {Found(ValueWith(MirrorOf(n))) : n \in Names}

(***************************************************************************)
(* The metadata namespace: keys in ascending order.                        *)
(***************************************************************************)
FilePrefix == <<"file", ":">>
FileKey(n) == FilePrefix \o n \o <<".wt">>
ColgroupKey(n) == <<"colgroup", ":">> \o n
InternalFileKey == FilePrefix \o <<"WiredTigerHS", ".wt">>

\* k.startswith(p)
StartsWith(k, p) == Len(k) >= Len(p) /\ SubSeq(k, 1, Len(p)) = p
\* k.startswith('file:WiredTiger')
StartsWithInternal(k) ==
  StartsWith(k, FilePrefix) /\ Len(k) > 2 /\ k[3] \in {"WiredTiger", "WiredTigerHS"}
\* k[len(prefix):-3]: the extension is one token of three characters.
StripKey(k) == SubSeq(k, Len(FilePrefix) + 1, Len(k) - 1)

RECURSIVE SortedNames(_)
\* The names of a set in key order.
SortedNames(S) ==
  IF S = {} THEN <<>>
  ELSE LET m == CHOOSE x \in S : \A y \in S : Rank(x) <= Rank(y)
       IN <<m>> \o SortedNames(S \ {m})

\* The keys of a database that holds the tables F: a colgroup, a file and a
\* table entry for each, and the file of the history store.
MetadataKeys(F) ==
  LET T == SortedNames(F)
  IN [i \in 1..Len(T) |-> ColgroupKey(T[i])]
       \o <<InternalFileKey>>
       \o [i \in 1..Cardinality(F) |-> FileKey(SortedNames(F)[i])]
       \o [i \in 1..Len(T) |-> TableKey(T[i])]

\* c.set_key('file:'); c.search_near(): the cursor lands on a neighbour of
\* the prefix, the largest smaller key or the smallest larger key.
SearchNear(ks) ==
  LET smaller == {i \in 1..Len(ks) : ks[i][1] = "colgroup"}
      larger == (1..Len(ks)) \ smaller
  IN (IF smaller = {} THEN {} ELSE {Cardinality(smaller)})
       \cup (IF larger = {} THEN {} ELSE {Cardinality(smaller) + 1})

\* f'{db_dir}/table:{filename}'
Uri(n) == <<"db_dir", "/">> \o TableKey(n)

\* What wiredtiger_compare_uri may do: return its value, or raise SystemExit
\* with a code, after writing its diagnostic text to the redirected stdout.
MaxCode == 1
Outcomes ==
  {[kind |-> "return", code |-> 0, text |-> <<"identical">>]}
    \cup {[kind |-> "exit", code |-> c,
           text |-> IF c = 0 THEN <<"identical">> ELSE <<"differ">>] :
            c \in 0..MaxCode}

VARIABLES
  sysargs,             \* len(sysargs)
  tables,              \* the catalog as get_mirrors reads it: key -> record
  keys,                \* the metadata namespace, ascending
  pc,                  \* the position of main
  conn,                \* "none", "open" or "closed"
  opens, closes,       \* how often the connection was opened and closed
  sessions, cursors,   \* the sessions and cursors now open
  cpos,                \* the position of the scanning cursor in keys
  files,               \* files of get_wiredtiger_db_files, then db_files
  idx,                 \* the position of the loop of get_mirrors in db_files
  db_files_remaining,
  mirrors,
  resolved,            \* what each iteration of get_mirrors did
  compared,            \* what each iteration of the loop of main did
  failure_count,
  output,              \* the lines printed
  exit_status,         \* -1 while running
  exc,                 \* the exception that ended the run, or "none"
  rout                 \* the result of the last get_mirror_file call

vars ==
  <<sysargs, tables, keys, pc, conn, opens, closes, sessions, cursors, cpos,
    files, idx, db_files_remaining, mirrors, resolved, compared,
    failure_count, output, exit_status, exc, rout>>

catalogVars == <<sysargs, tables, keys>>
scanVars == <<cpos, files>>
pairVars == <<idx, db_files_remaining, mirrors, resolved, rout>>
compareVars == <<compared, failure_count>>
exitVars == <<output, exit_status, exc>>
connVars == <<conn, opens, closes>>
handleVars == <<sessions, cursors>>

TableKeys == {TableKey(n) : n \in Names}

\* What every run starts with, whatever the database holds.
InitLocals ==
  /\ pc = "start"
  /\ conn = "none" /\ opens = 0 /\ closes = 0
  /\ sessions = 0 /\ cursors = 0
  /\ cpos = 0 /\ files = <<>>
  /\ idx = 0 /\ db_files_remaining = {} /\ mirrors = <<>> /\ resolved = <<>>
  /\ compared = <<>> /\ failure_count = 0
  /\ output = <<>> /\ exit_status = -1 /\ exc = "none"
  /\ rout = None

\* A database directory, by the tables it holds; main is called with one
\* argument, or with none or two on an empty directory. No record is read yet.
Init ==
  /\ InitLocals
  /\ tables = [k \in TableKeys |-> Absent]
  /\ \E F \in SUBSET Names :
       /\ keys = MetadataKeys(F)
       /\ sysargs \in (IF F = {} THEN {0, 1, 2} ELSE {1})

(***************************************************************************)
(* main, up to the scan.                                                   *)
(***************************************************************************)
\* if len(sysargs) != 1: usage_exit()
UsageExit ==
  /\ pc = "start" /\ sysargs # 1
  /\ output' = output \o <<[kind |-> "usage"], [kind |-> "usage"]>>
  /\ exit_status' = 1
  /\ pc' = "exited"
  /\ UNCHANGED <<catalogVars, connVars, handleVars, scanVars, pairVars,
                 compareVars, exc>>

\* connection = wiredtiger_open(db_dir, 'readonly')
WiredTigerOpen ==
  /\ pc = "start" /\ sysargs = 1
  /\ conn' = "open" /\ opens' = opens + 1
  /\ pc' = "scan_begin"
  /\ UNCHANGED <<catalogVars, closes, handleVars, scanVars, pairVars,
                 compareVars, exitVars>>

\* wiredtiger_open raises: the directory cannot be opened.
WiredTigerOpenFails ==
  /\ pc = "start" /\ sysargs = 1
  /\ exc' = "WiredTigerError" /\ exit_status' = 1
  /\ pc' = "raised"
  /\ UNCHANGED <<catalogVars, connVars, handleVars, scanVars, pairVars,
                 compareVars, output>>

(***************************************************************************)
(* get_wiredtiger_db_files                                                 *)
(***************************************************************************)
\* The session and the cursor are opened and the cursor is positioned.
ScanBegin ==
  /\ pc = "scan_begin"
  /\ sessions' = sessions + 1 /\ cursors' = cursors + 1
  /\ cpos' \in SearchNear(keys)
  /\ files' = <<>>
  /\ pc' = "scan_loop"
  /\ UNCHANGED <<catalogVars, connVars, pairVars, compareVars, exitVars>>

\* One iteration of 'for k,_ in c': the cursor moves to the next key, and the
\* loop ends when there is none or the key is past the prefix.
ScanNext ==
  /\ pc = "scan_loop"
  /\ IF cpos >= Len(keys)
     THEN /\ pc' = "scan_end"
          /\ UNCHANGED <<cpos, files>>
     ELSE LET k == keys[cpos + 1]
          IN /\ cpos' = cpos + 1
             /\ IF ~StartsWith(k, FilePrefix)
                THEN pc' = "scan_end" /\ files' = files
                ELSE IF StartsWithInternal(k)
                THEN pc' = pc /\ files' = files
                ELSE pc' = pc /\ files' = Append(files, StripKey(k))
  /\ UNCHANGED <<catalogVars, connVars, handleVars, pairVars, compareVars,
                 exitVars>>

\* The cursor raises while the loop iterates it; nothing catches it.
ScanRaises ==
  /\ pc = "scan_loop"
  /\ exc' = "WiredTigerError" /\ exit_status' = 1
  /\ pc' = "raised"
  /\ UNCHANGED <<catalogVars, connVars, handleVars, scanVars, pairVars,
                 compareVars, output>>

\* c.close(); session.close(); return files
ScanEnd ==
  /\ pc = "scan_end"
  /\ cursors' = cursors - 1 /\ sessions' = sessions - 1
  /\ cpos' = 0
  /\ pc' = "mirrors_begin"
  /\ UNCHANGED <<catalogVars, connVars, files, pairVars, compareVars,
                 exitVars>>

(***************************************************************************)
(* get_mirrors                                                             *)
(***************************************************************************)
\* The set, the list, the session and the metadata cursor of get_mirrors.
\* The records the cursor will read are those of the catalog at this point: a
\* record for the table of each file of db_files, none for a table without a
\* file, which is never looked up.
MirrorsBegin ==
  /\ pc = "mirrors_begin"
  /\ LET listed == {TableKey(files[i]) : i \in 1..Len(files)}
     IN tables' \in {[k \in TableKeys |-> IF k \in listed THEN t[k] ELSE Absent] :
                       t \in [listed -> MainRecords]}
  /\ db_files_remaining' = {files[i] : i \in 1..Len(files)}
  /\ mirrors' = <<>>
  /\ sessions' = sessions + 1 /\ cursors' = cursors + 1
  /\ idx' = 1
  /\ pc' = "mirrors_loop"
  /\ UNCHANGED <<sysargs, keys, connVars, scanVars, resolved, rout,
                 compareVars, exitVars>>

\* 'if mirror_filename': neither None nor the empty string.
Truthy(r) == r.kind = "str" /\ r.val # <<>>

\* The mutant of PairCheck: the mirror is not looked for in the remaining set.
PairCheckNoMembership(mirror_filename, remaining) == Truthy(mirror_filename)

\* if mirror_filename and mirror_filename in db_files_remaining
PairCheck(mirror_filename, remaining) ==
  Truthy(mirror_filename) /\ mirror_filename.val \in remaining

\* The mutant of RemoveMirror: the mirror stays in the remaining set.
RemoveMirrorKept(remaining, mirror_filename) == remaining

\* db_files_remaining.remove(mirror_filename)
RemoveMirror(remaining, mirror_filename) == remaining \ {mirror_filename}

\* One iteration of 'for filename in db_files', the call of get_mirror_file
\* included; an exception of get_mirror_file leaves get_mirrors.
MirrorsStep ==
  /\ pc = "mirrors_loop" /\ idx <= Len(files)
  /\ LET filename == files[idx]
         remaining == db_files_remaining \ {filename}
     IN IF filename \notin db_files_remaining
        THEN /\ idx' = idx + 1
             /\ UNCHANGED <<db_files_remaining, mirrors, resolved, rout, pc,
                            exitVars>>
        ELSE \E mirror_filename \in
                  {get_mirror_file(tables, TableKey(filename))} :
             /\ rout' = mirror_filename
             /\ IF mirror_filename.kind = "raise"
                THEN /\ db_files_remaining' = remaining
                     /\ exc' = mirror_filename.val[1] /\ exit_status' = 1
                     /\ pc' = "raised"
                     /\ UNCHANGED <<idx, mirrors, resolved, output>>
                ELSE /\ idx' = idx + 1
                     /\ resolved' = Append(resolved,
                          [filename |-> filename, mirror |-> mirror_filename,
                           before |-> db_files_remaining,
                           emitted |-> PairCheck(mirror_filename, remaining)])
                     /\ IF PairCheck(mirror_filename, remaining)
                        THEN /\ db_files_remaining' =
                                  RemoveMirror(remaining, mirror_filename.val)
                             /\ mirrors' = Append(mirrors,
                                  <<Uri(filename), Uri(mirror_filename.val)>>)
                        ELSE /\ db_files_remaining' = remaining
                             /\ mirrors' = mirrors
                     /\ UNCHANGED <<pc, exitVars>>
  /\ UNCHANGED <<catalogVars, connVars, handleVars, scanVars, compareVars>>

\* metadata_cursor.close(); session.close(); return mirrors
MirrorsEnd ==
  /\ pc = "mirrors_loop" /\ idx > Len(files)
  /\ cursors' = cursors - 1 /\ sessions' = sessions - 1
  /\ pc' = "conn_close"
  /\ UNCHANGED <<catalogVars, connVars, scanVars, pairVars, compareVars,
                 exitVars>>

(***************************************************************************)
(* main, after the scan.                                                   *)
(***************************************************************************)
\* The mutant of ConnectionClose: the connection is left open.
ConnectionCloseSkipped ==
  /\ pc = "conn_close"
  /\ failure_count' = 0
  /\ pc' = "compare"
  /\ UNCHANGED <<catalogVars, connVars, handleVars, scanVars, pairVars,
                 compared, exitVars>>

\* connection.close(); failure_count = 0
ConnectionClose ==
  /\ pc = "conn_close"
  /\ conn' = "closed" /\ closes' = closes + 1
  /\ failure_count' = 0
  /\ pc' = "compare"
  /\ UNCHANGED <<catalogVars, opens, handleVars, scanVars, pairVars,
                 compared, exitVars>>

\* The mutant of Mismatch: every SystemExit counts, also with the code 0.
MismatchAnyExit(o) == o.kind = "exit"

\* except SystemExit as e: if e.code != 0
Mismatch(o) == o.kind = "exit" /\ o.code # 0

\* One iteration of 'for item in mirrors'. stdout is assigned only when
\* wiredtiger_compare_uri returns, so it is still None in the except clause.
CompareItem ==
  /\ pc = "compare" /\ Len(compared) < Len(mirrors)
  /\ \E o \in Outcomes :
       LET item == mirrors[Len(compared) + 1]
           stdout == IF o.kind = "return" THEN Str(o.text) ELSE None
       IN /\ compared' = Append(compared,
               [item |-> item, outcome |-> o, conn |-> conn])
          /\ IF Mismatch(o)
             THEN /\ output' = Append(output,
                       [kind |-> "mismatch", item |-> item, text |-> stdout])
                  /\ failure_count' = failure_count + 1
             ELSE UNCHANGED <<output, failure_count>>
  /\ UNCHANGED <<catalogVars, connVars, handleVars, scanVars, pairVars, pc,
                 exit_status, exc>>

\* The summary line and sys.exit(1 if failure_count > 0 else 0).
Report ==
  /\ pc = "compare" /\ Len(compared) = Len(mirrors)
  /\ output' = Append(output,
       IF failure_count = 0
       THEN [kind |-> "success", total |-> Len(mirrors)]
       ELSE [kind |-> "failed", failures |-> failure_count,
             total |-> Len(mirrors)])
  /\ exit_status' = IF failure_count > 0 THEN 1 ELSE 0
  /\ pc' = "exited"
  /\ UNCHANGED <<catalogVars, connVars, handleVars, scanVars, pairVars,
                 compareVars, exc>>

Next ==
  \/ UsageExit
  \/ WiredTigerOpen
  \/ WiredTigerOpenFails
  \/ ScanBegin
  \/ ScanNext
  \/ ScanRaises
  \/ ScanEnd
  \/ MirrorsBegin
  \/ MirrorsStep
  \/ MirrorsEnd
  \/ ConnectionClose
  \/ CompareItem
  \/ Report

Spec == Init /\ [][Next]_vars

(***************************************************************************)
(* get_mirror_file on its own: one call on one record, drawn from records  *)
(* with app_metadata strings of up to MaxElems elements.                   *)
(***************************************************************************)
\* The elements an app_metadata string is made of, well formed and not.
Elements ==
  {<<DYN, "=", "true">>,
   <<DYN, "=", "false">>,
   <<" ", DYN, " ", "=", " ", "true", " ">>,
   <<DYN>>,
   <<DYN, "=", "true", "=", "true">>,
   <<"other", "=", "x">>,
   <<>>,
   <<MIR, "=">> \o Name(1),
   <<MIR, "=", "table", ":">>,
   <<" ", MIR, "=", " ", "file", ":">> \o Name(2) \o <<" ">>}
    \cup {<<MIR, "=", "table", ":">> \o n : n \in Names}

AppStrings ==
  {Join(es, ",") : es \in UNION {[1..k -> Elements] : k \in 0..MaxElems}}

ResolveRecords ==
  {Absent, LookupError, Found(ValuePlain)}
    \cup {Found(ValueWith(a)) : a \in AppStrings}
    \cup {Found(ValueUnclosed(a)) : a \in AppStrings}

\* The key get_mirror_file is called with.
ResolveKey == TableKey(Name(1))

InitResolve ==
  /\ InitLocals
  /\ sysargs = 1 /\ keys = <<>>
  /\ \E r \in ResolveRecords :
       tables = [k \in TableKeys |-> IF k = ResolveKey THEN r ELSE Absent]

\* mirror_filename = get_mirror_file(metadata_cursor, f'table:{filename}')
ResolveCall ==
  /\ pc = "start"
  /\ rout' = get_mirror_file(tables, ResolveKey)
  /\ pc' = "resolved"
  /\ UNCHANGED <<catalogVars, connVars, handleVars, scanVars, idx,
                 db_files_remaining, mirrors, resolved, compareVars,
                 exitVars>>

NextResolve == ResolveCall

SpecResolve == InitResolve /\ [][NextResolve]_vars

(***************************************************************************)
(* Properties.                                                             *)
(***************************************************************************)
\* Both sides of all pairs of a list.
Sides(ms) == {ms[i][j] : i \in 1..Len(ms), j \in 1..2}
\* s holds sub as a substring.
Contains(s, sub) ==
  \E i \in 1..(Len(s) - Len(sub) + 1) : SubSeq(s, i, i + Len(sub) - 1) = sub
\* The number of tokens t in s.
Count(s, t) == Cardinality({i \in 1..Len(s) : s[i] = t})
\* The position of a file name in db_files, 0 when it is not listed.
Pos(n) ==
  IF \E i \in 1..Len(files) : files[i] = n
  THEN CHOOSE i \in 1..Len(files) : files[i] = n
  ELSE 0
\* get_mirrors has returned its list.
MirrorsReturned == pc \in {"conn_close", "compare", "exited"} /\ sysargs = 1
\* The metadata of table n lacks workgen_dynamic_table=true or lacks
\* workgen_table_mirror (absent and plain records included).
LacksMirrorConfig(n) ==
  LET r == tables[TableKey(n)]
  IN \/ r.kind # "found"
     \/ ~Contains(r.value, <<DYN, "=", "true">>)
     \/ Count(r.value, MIR) = 0
\* The record of a table that names n as its mirror, as Workgen writes it.
MirrorRecord == [n \in Names |-> Found(ValueWith(MirrorOf(n)))]
\* The metadata of table a names b as its mirror.
NamesMirror(a, b) == tables[TableKey(a)] = MirrorRecord[b]

\* C1: the pairs of get_mirrors hold every table at most once over both
\* sides of all pairs: no name is in two pairs and no pair has base = mirror.
C1_Exclusive ==
  /\ \A i \in 1..Len(mirrors) : mirrors[i][1] # mirrors[i][2]
  /\ \A i, j \in 1..Len(mirrors) : \A a, b \in 1..2 :
       mirrors[i][a] = mirrors[j][b] => i = j /\ a = b

\* get_mirrors has returned a pair, after one table named itself as its
\* mirror and another named a table that a pair had already taken.
C1_Witness ==
  /\ MirrorsReturned /\ Len(mirrors) > 0
  /\ \E i \in 1..Len(resolved) :
       /\ ~resolved[i].emitted /\ resolved[i].mirror.kind = "str"
       /\ resolved[i].mirror.val = resolved[i].filename
  /\ \E i \in 1..Len(resolved) :
       /\ ~resolved[i].emitted /\ resolved[i].mirror.kind = "str"
       /\ Uri(resolved[i].mirror.val) \in Sides(mirrors)

\* C2 as stated: a table whose metadata lacks the flag or the mirror entry is
\* on neither side of a pair.
C2_NeverInAPair ==
  \A n \in Names : LacksMirrorConfig(n) => Uri(n) \notin Sides(mirrors)

\* C2 amended: a table whose metadata lacks the flag or the mirror entry is
\* never the base side of a pair.
C2_NeverBase ==
  \A i \in 1..Len(mirrors) : \A n \in Names :
    mirrors[i][1] = Uri(n) => ~LacksMirrorConfig(n)

\* get_mirrors has returned a pair whose mirror side has no mirror
\* configuration, with a table that names a mirror without the flag listed.
C2_Witness ==
  /\ MirrorsReturned
  /\ \E n \in Names : \E i \in 1..Len(mirrors) :
       LacksMirrorConfig(n) /\ mirrors[i][2] = Uri(n)
  /\ \E n \in Names :
       /\ Pos(n) > 0
       /\ tables[TableKey(n)] = Found(ValueWith(NoFlagMirrorOf(Name(MaxTables))))

\* C3: an entry whose metadata names a mirror that is not in the remaining
\* set (not listed, or consumed earlier) emits no pair, is itself removed from
\* the remaining set, and the loop moves to the next entry without raising.
C3_OrphanSkipped ==
  [][(/\ pc = "mirrors_loop" /\ idx <= Len(files)
      /\ files[idx] \in db_files_remaining
      /\ \E b \in Names : NamesMirror(files[idx], b) /\ b \notin db_files_remaining)
     => (/\ mirrors' = mirrors
         /\ db_files_remaining' = db_files_remaining \ {files[idx]}
         /\ pc' = "mirrors_loop" /\ idx' = idx + 1
         /\ exc' = "none")]_vars

\* An entry named a mirror that was not listed and one an already consumed
\* mirror, neither emitted a pair, and a later entry was processed after each.
C3_Witness ==
  /\ \E i \in 1..(Len(resolved) - 1) :
       /\ resolved[i].mirror.kind = "str" /\ ~resolved[i].emitted
       /\ Pos(resolved[i].mirror.val) = 0
  /\ \E i \in 1..(Len(resolved) - 1) :
       /\ resolved[i].mirror.kind = "str" /\ ~resolved[i].emitted
       /\ Pos(resolved[i].mirror.val) > 0
       /\ resolved[i].mirror.val \notin resolved[i].before

\* C4: get_mirror_file never raises, whatever the record and the lookup do.
C4_NeverRaises == pc = "resolved" => rout.kind # "raise"

\* A record is well formed: the lookup finds it or raises KeyError, and in its
\* app_metadata every element has exactly one '=' and every value of
\* workgen_table_mirror exactly one ':'.
WellFormed(r) ==
  \/ r.kind = "absent"
  \/ /\ r.kind = "found"
     /\ \A m \in {FindAllAppMetadata(r.value)} :
          m # <<>> =>
            \A e \in {Split(m[1], ",")[i] : i \in 1..Len(Split(m[1], ","))} :
              /\ Count(e, "=") = 1
              /\ (Count(e, MIR) = 1 => Count(e, ":") = 1)

\* The value of key k in the app_metadata string s of a well-formed record:
\* what follows the '=' of the last element that holds k, without the spaces
\* around it; <<>> when no element holds k.
EntryOf(s, k) ==
  LET es == Split(s, ",")
      holds == {i \in 1..Len(es) : Count(es[i], k) = 1}
  IN IF holds = {} THEN <<>>
     ELSE LET e == es[CHOOSE i \in holds : \A j \in holds : j <= i]
              eq == CHOOSE i \in 1..Len(e) : e[i] = "="
          IN Strip(SubSeq(e, eq + 1, Len(e)))

\* C5: on a well-formed record get_mirror_file returns the name N exactly
\* when the key exists, the record has an app_metadata substring whose map
\* has workgen_dynamic_table = 'true' and workgen_table_mirror =
\* '<qualifier>:N'; otherwise it returns None.
C5_MirrorExactly ==
  (pc = "resolved" /\ WellFormed(tables[ResolveKey])) =>
    LET r == tables[ResolveKey]
        has_app == r.kind = "found" /\ Contains(r.value, <<AM_OPEN>>)
                     /\ r.value[Len(r.value) - 2] = QUOTE
        app == SubSeq(r.value, 4, Len(r.value) - 3)
        mirror == EntryOf(app, MIR)
    IN IF has_app /\ EntryOf(app, DYN) = <<"true">> /\ mirror # <<>>
       THEN rout = Str(SubSeq(mirror, 3, Len(mirror)))
       ELSE rout = None

\* A well-formed record with spaces around its entries, a flag set twice and
\* a mirror: the call returned the name of the mirror.
C5_Witness ==
  /\ pc = "resolved"
  /\ WellFormed(tables[ResolveKey])
  /\ tables[ResolveKey].kind = "found"
  /\ Count(tables[ResolveKey].value, " ") > 0
  /\ rout = Str(Name(2))

\* main has run to its sys.exit at line 160.
Reported == pc = "exited" /\ sysargs = 1
\* The comparisons that signalled a nonzero code.
Failed == {i \in 1..Len(compared) :
             compared[i].outcome.kind = "exit" /\ compared[i].outcome.code # 0}

\* C6: the pairs are compared once each, in list order, whatever the earlier
\* outcomes; at the end all pairs were compared, failure_count is the number
\* of comparisons that signalled a nonzero code, and the exit status is 0
\* when it is zero and 1 otherwise.
C6_AllComparedAndCounted ==
  /\ Len(compared) <= Len(mirrors)
  /\ \A i \in 1..Len(compared) : compared[i].item = mirrors[i]
  /\ Reported =>
       /\ Len(compared) = Len(mirrors)
       /\ failure_count = Cardinality(Failed)
       /\ exit_status = IF Cardinality(Failed) = 0 THEN 0 ELSE 1

\* Two pairs: the first signalled a nonzero code, the second the code 0, and
\* main exited with status 1 and a count of 1.
C6_Witness ==
  /\ Reported /\ Len(compared) = 2
  /\ compared[1].outcome.kind = "exit" /\ compared[1].outcome.code > 0
  /\ compared[2].outcome.kind = "exit" /\ compared[2].outcome.code = 0
  /\ failure_count = 1 /\ exit_status = 1

C8_HandlesReleased ==
  pc \notin {"scan_loop", "scan_end", "mirrors_loop"} =>
    sessions = 0 /\ cursors = 0

\* C9: a 'Mirror mismatch' line is printed for the pairs that signalled a
\* nonzero code and for no other, and it carries the diagnostic text the
\* comparison produced for that pair.
C9_DiagnosticShown ==
  LET lines == SelectSeq(output, LAMBDA l : l.kind = "mismatch")
      failed == SelectSeq(compared, LAMBDA c :
                   c.outcome.kind = "exit" /\ c.outcome.code # 0)
  IN /\ Len(lines) = Len(failed)
     /\ \A i \in 1..Len(lines) :
          /\ lines[i].item = failed[i].item
          /\ lines[i].text = Str(failed[i].outcome.text)

\* The case of C10: a and b are listed, a names b, b names no mirror, and no
\* other table names a or b.
MirrorCase(a, b) ==
  /\ a # b /\ NamesMirror(a, b)
  /\ Pos(a) > 0 /\ Pos(b) > 0
  /\ \A x \in Names : ~NamesMirror(b, x)
  /\ \A c \in Names \ {a, b} : ~NamesMirror(c, a) /\ ~NamesMirror(c, b)
\* The pairs that hold a or b.
PairsWith(a, b) ==
  {i \in 1..Len(mirrors) :
     {mirrors[i][1], mirrors[i][2]} \cap {Uri(a), Uri(b)} # {}}

\* C10 as stated: in that case get_mirrors returns exactly one pair with a or
\* b, the pair [a, b], whichever of them is listed first.
C10_PairWhateverOrder ==
  MirrorsReturned =>
    \A a, b \in Names : MirrorCase(a, b) =>
      \E i \in 1..Len(mirrors) :
        mirrors[i] = <<Uri(a), Uri(b)>> /\ PairsWith(a, b) = {i}

\* C10 amended: once the loop has passed the entries of a and b, there is
\* exactly one pair with a or b, the pair [a, b], when a is listed before b,
\* and no pair with a or b when b is listed before a.
C10_PairWhenBaseFirst ==
  \A a, b \in Names :
    (MirrorCase(a, b) /\ idx > Pos(a) /\ idx > Pos(b)) =>
      IF Pos(a) < Pos(b)
      THEN \E i \in 1..Len(mirrors) :
             mirrors[i] = <<Uri(a), Uri(b)>> /\ PairsWith(a, b) = {i}
      ELSE PairsWith(a, b) = {}

\* get_mirrors has returned in a case where the mirror is listed before the
\* table that names it, and in a case where it is listed after it.
C10_Witness ==
  /\ MirrorsReturned
  /\ \E a, b \in Names : MirrorCase(a, b) /\ Pos(b) < Pos(a)
  /\ \E a, b \in Names : MirrorCase(a, b) /\ Pos(a) < Pos(b)

====
